---- MODULE Spec2Model ----
(***************************************************************************)
(* Model of the change-failure-rate core of cfr-ui: parseSemverTag,        *)
(* computeReleaseCfr and rate (src/unnamed/part_005, the module imported   *)
(* as "@/lib/cfr").                                                        *)
(*                                                                         *)
(* Strings are sequences of one-character strings, so that parsing and     *)
(* formatting are computed and not assumed.  Positions inside a string are *)
(* JavaScript positions (0-based); s[p + 1] is the character at p.         *)
(*                                                                         *)
(* A rate is a JavaScript number with at most four decimals; it is held    *)
(* as the integer count of ten-thousandths (0.6667 is 6667).               *)
(***************************************************************************)
EXTENDS Integers, Sequences, FiniteSets, TLC

\* ------------------------------------------------------------- bounds

\* Longest tag list handed to computeReleaseCfr.
MaxTags == 3

\* Largest denominator (and numerator) handed to rate in SpecRate.
MaxTotal == 40

\* ------------------------------------------------------------ strings

Digits == <<"0", "1", "2", "3", "4", "5", "6", "7", "8", "9">>

IsDigit(c) == \E i \in 1..10 : Digits[i] = c

\* Value of one decimal digit.
DigitVal(c) == (CHOOSE i \in 1..10 : Digits[i] = c) - 1

\* Number(text) for a text of decimal digits: leading zeros do not count.
RECURSIVE ToNumber(_)
ToNumber(ds) ==
  IF ds = <<>> THEN 0
  ELSE 10 * ToNumber(SubSeq(ds, 1, Len(ds) - 1)) + DigitVal(ds[Len(ds)])

\* `${n}` for a non-negative integer n: its decimal digits, no leading zero.
RECURSIVE NumberToString(_)
NumberToString(n) ==
  IF n < 10 THEN <<Digits[n + 1]>>
  ELSE NumberToString(n \div 10) \o <<Digits[(n % 10) + 1]>>

\* Position just after the longest run of digits of s that starts at
\* position p (p itself when s has no digit there): what \d+ consumes.
RECURSIVE DigitsEnd(_, _)
DigitsEnd(s, p) ==
  IF p < Len(s) /\ IsDigit(s[p + 1]) THEN DigitsEnd(s, p + 1) ELSE p

\* Characters of s from position p up to, not including, position q.
Slice(s, p, q) == SubSeq(s, p + 1, q)

\* Whether s has character c at position p.
CharAt(s, p, c) == p < Len(s) /\ s[p + 1] = c

\* ------------------------------------------------------ regular expressions

NoMatch == [found |-> FALSE, m1 |-> <<>>, m2 |-> <<>>, m3 |-> <<>>, end |-> 0]

\* \d+\.\d+\.\d+ tried at position p of s: the three digit runs and the
\* position after the match.  Each \d+ is greedy and what must follow it is
\* not a digit, so no shorter run can match where the longest one fails.
TripleAt(s, p) ==
  LET e1 == DigitsEnd(s, p)
      e2 == DigitsEnd(s, e1 + 1)
      e3 == DigitsEnd(s, e2 + 1)
  IN  IF e1 > p /\ CharAt(s, e1, ".") /\ e2 > e1 + 1 /\ CharAt(s, e2, ".") /\ e3 > e2 + 1
      THEN [found |-> TRUE, m1 |-> Slice(s, p, e1), m2 |-> Slice(s, e1 + 1, e2),
            m3 |-> Slice(s, e2 + 1, e3), end |-> e3]
      ELSE NoMatch

\* tag.match(SEMVER_PREFIX) with SEMVER_PREFIX = /^v?(\d+)\.(\d+)\.(\d+)/
SEMVER_PREFIX(s) == TripleAt(s, IF CharAt(s, 0, "v") THEN 1 ELSE 0)

\* ---------------------------------------------------- acceptance patterns

\* The acceptance patterns callers hand over, by source text:
\*   "default"  ^v?\d+\.\d+\.\d+(?:[-+].+)?$    (DEFAULT_VERSION_PATTERN)
\*   "v"        ^v
\*   "triple"   \d+\.\d+\.\d+                   (not anchored)

\* Leftmost position >= from where \d+\.\d+\.\d+ matches in s, as the
\* position after that match; -1 when there is none.
RECURSIVE TripleSearch(_, _)
TripleSearchStep(s, from, t) ==
  IF t.found THEN t.end ELSE TripleSearch(s, from + 1)

TripleSearch(s, from) ==
  IF from >= Len(s) THEN -1 ELSE TripleSearchStep(s, from, TripleAt(s, from))

\* ^v?\d+\.\d+\.\d+(?:[-+].+)?$ on s, t being the match of its first part,
\* which is SEMVER_PREFIX without the groups: the whole of s or nothing.
\* The last \d+ is greedy and what follows it (the end, - or +) is no digit,
\* so a shorter run of digits never matches where the longest fails.
DefaultMatchEnd(s, from, t) ==
  IF /\ from = 0
     /\ t.found
     /\ \/ t.end = Len(s)
        \/ /\ CharAt(s, t.end, "-") \/ CharAt(s, t.end, "+")
           /\ Len(s) >= t.end + 2
  THEN Len(s) ELSE -1

\* The regular expression engine on one pattern: the position after the
\* leftmost match of `source` in s that starts at or after position `from`,
\* or -1.  ^ matches at position 0 only (no pattern carries the m flag) and
\* . matches every character (tags hold no line break).
MatchEnd(source, s, from) ==
  CASE source = "default" -> DefaultMatchEnd(s, from, SEMVER_PREFIX(s))
    [] source = "v" -> IF from = 0 /\ CharAt(s, 0, "v") THEN 1 ELSE -1
    [] source = "triple" -> TripleSearch(s, from)

\* What test answers and leaves in lastIndex when the search ended at e.
\* Without the g flag lastIndex is left alone; with it lastIndex becomes the
\* end of the match, or 0 when there is none.
TestResult(re, e) ==
  IF ~re.global THEN [ok |-> e >= 0, lastIndex |-> re.lastIndex]
  ELSE IF e >= 0 THEN [ok |-> TRUE, lastIndex |-> e]
  ELSE [ok |-> FALSE, lastIndex |-> 0]

\* versionRegex.test(s): the answer and the pattern object's lastIndex
\* afterwards.  Without the g flag the search starts at 0; with it the
\* search starts at lastIndex and fails at once when that is past the end.
RegExpTest(re, s) ==
  IF re.global /\ re.lastIndex > Len(s) THEN [ok |-> FALSE, lastIndex |-> 0]
  ELSE TestResult(re, MatchEnd(re.source, s, IF re.global THEN re.lastIndex ELSE 0))

\* ----------------------------------------------------------- parseSemverTag

\* The value of a ParsedTag slot that holds no tag.
NoTag == [name |-> <<>>, major |-> 0, minor |-> 0, patch |-> 0]

\* match[n] for n in 1..3: the text of the n-th group.  Reading it from a
\* match that is null raises a TypeError.
MatchGroup(match, n) ==
  [threw |-> ~match.found,
   text |-> CASE n = 1 -> match.m1 [] n = 2 -> match.m2 [] n = 3 -> match.m3]

\* The ParsedTag built from a match, and whether building it raised.
TagFromMatch(tag, match) ==
  [threw |-> MatchGroup(match, 1).threw \/ MatchGroup(match, 2).threw \/ MatchGroup(match, 3).threw,
   tag |-> [name |-> tag,
            major |-> ToNumber(MatchGroup(match, 1).text),
            minor |-> ToNumber(MatchGroup(match, 2).text),
            patch |-> ToNumber(MatchGroup(match, 3).text)]]

\* What parseSemverTag gives when it returns the ParsedTag built.
Returned(built, lastIndex) ==
  [parsed |-> ~built.threw, threw |-> built.threw,
   tag |-> IF built.threw THEN NoTag ELSE built.tag, lastIndex |-> lastIndex]

\* What parseSemverTag gives when it returns null.
ReturnedNull(lastIndex) ==
  [parsed |-> FALSE, threw |-> FALSE, tag |-> NoTag, lastIndex |-> lastIndex]

\* Variant of ParsedTagOf without the check of the match, reading each
\* missing group as 0: C12 must tell it from ParsedTagOf.
ParsedTagOfAnyMatch(tag, t, match) ==
  IF ~t.ok THEN ReturnedNull(t.lastIndex)
  ELSE [parsed |-> TRUE, threw |-> FALSE,
        tag |-> [name |-> tag,
                 major |-> ToNumber(match.m1),
                 minor |-> ToNumber(match.m2),
                 patch |-> ToNumber(match.m3)],
        lastIndex |-> t.lastIndex]

\* Variant of ParsedTagOf without the check of the match: C15 must tell it
\* from ParsedTagOf.
ParsedTagOfUnchecked(tag, t, match) ==
  IF ~t.ok THEN ReturnedNull(t.lastIndex)
  ELSE Returned(TagFromMatch(tag, match), t.lastIndex)

\* The body of parseSemverTag once the two patterns have been tried: t is
\* what versionRegex.test(tag) gave and match what tag.match(SEMVER_PREFIX)
\* gives.
ParsedTagOf(tag, t, match) ==
  IF ~t.ok THEN ReturnedNull(t.lastIndex)
  ELSE IF ~match.found THEN ReturnedNull(t.lastIndex)
  ELSE Returned(TagFromMatch(tag, match), t.lastIndex)

\* parseSemverTag(tag, versionRegex): whether a ParsedTag is returned (null
\* otherwise), whether an error was raised instead, the ParsedTag, and
\* versionRegex.lastIndex afterwards.
parseSemverTag(tag, versionRegex) ==
  ParsedTagOf(tag, RegExpTest(versionRegex, tag), SEMVER_PREFIX(tag))

\* tags.map(parseSemverTag).filter(Boolean): the ParsedTags in input order,
\* versionRegex.lastIndex after the last test, and whether a parse raised
\* an error, which ends the map there.
RECURSIVE ParseTags(_, _)
KeepParsed(p, rest) ==
  [parsedTags |-> (IF p.parsed THEN <<p.tag>> ELSE <<>>) \o rest.parsedTags,
   lastIndex |-> rest.lastIndex,
   threw |-> rest.threw]

ParseRest(tags, versionRegex, p) ==
  IF p.threw THEN [parsedTags |-> <<>>, lastIndex |-> p.lastIndex, threw |-> TRUE]
  ELSE KeepParsed(p, ParseTags(Tail(tags), [versionRegex EXCEPT !.lastIndex = p.lastIndex]))

ParseTags(tags, versionRegex) ==
  IF tags = <<>>
  THEN [parsedTags |-> <<>>, lastIndex |-> versionRegex.lastIndex, threw |-> FALSE]
  ELSE ParseRest(tags, versionRegex, parseSemverTag(Head(tags), versionRegex))

\* ----------------------------------------------------------------- rate

\* Decimals kept by toFixed(4).
FractionDigits == 4

RECURSIVE Pow10(_)
Pow10(k) == IF k = 0 THEN 1 ELSE 10 * Pow10(k - 1)

\* 10^4: the number of ten-thousandths in 1.
Scale == Pow10(FractionDigits)

\* The text toFixed(4) writes for n ten-thousandths: the point before the
\* last four digits.
FixedText(n) ==
  NumberToString(n \div Scale) \o <<".">> \o Tail(NumberToString(Scale + (n % Scale)))

\* Variant of toFixed that cuts the quotient after four decimals instead of
\* rounding it: C8 must tell it from toFixed.
toFixedTruncating(failed, total) == FixedText((Scale * failed) \div total)

\* (failed / total).toFixed(4) for total > 0 and failed >= 0: the decimal
\* text of the integer n for which n / 10^4 is closest to the quotient, the
\* larger n on a tie.  The quotient is a double; for total < 160 it lies on
\* the same side of every four-decimal midpoint as the exact ratio, and a
\* ratio that is such a midpoint has denominator 32 and is a double itself,
\* so n is the exact ratio rounded half up.
toFixed(failed, total) == FixedText((2 * Scale * failed + total) \div (2 * total))

\* Position of the first "." of s at or after p, or Len(s) when none.
RECURSIVE PointAt(_, _)
PointAt(s, p) == IF p >= Len(s) \/ s[p + 1] = "." THEN p ELSE PointAt(s, p + 1)

\* The number a decimal text with its point at position dot stands for, in
\* ten-thousandths.
NumberAt(s, dot) ==
  ToNumber(Slice(s, 0, dot)) * Scale
    + ToNumber(Slice(s, dot + 1, Len(s))) * Pow10(FractionDigits - (Len(s) - (dot + 1)))

\* Number(text) for a decimal text with one to four decimals.
NumberOf(s) == NumberAt(s, PointAt(s, 0))

\* rate(failed, total), in ten-thousandths.
rate(failed, total) ==
  IF total <= 0 THEN 0 ELSE NumberOf(toFixed(failed, total))

\* ----------------------------------------------------- computeReleaseCfr

\* null, as the value of a group's releaseTag: no tag name, which is a
\* sequence of single characters, equals it.
null == <<"null">>

\* Variant of GroupKey that leaves the minor number out of the key: C1 must
\* tell it from GroupKey.
GroupKeyMajorOnly(tag) == NumberToString(tag.major)

\* `${tag.major}.${tag.minor}`
GroupKey(tag) == NumberToString(tag.major) \o <<".">> \o NumberToString(tag.minor)

\* Index in the map (kept in insertion order) of the entry with this key,
\* 0 when the map has none.
GroupIndex(groups, key) ==
  IF \E i \in 1..Len(groups) : groups[i].key = key
  THEN CHOOSE i \in 1..Len(groups) : groups[i].key = key
  ELSE 0

\* groups.get(key) ?? { major, minor, releaseTag: null, patchTags: [] }
GroupFor(groups, tag, i) ==
  IF i > 0 THEN groups[i]
  ELSE [key |-> GroupKey(tag), major |-> tag.major, minor |-> tag.minor,
        releaseTag |-> null, patchTags |-> <<>>]

\* Variant of TakeTag in which a later patch-0 tag replaces the release tag:
\* C3 must tell it from TakeTag.
TakeTagLastWins(group, tag) ==
  IF tag.patch = 0
  THEN [group EXCEPT !.releaseTag = tag.name]
  ELSE [group EXCEPT !.patchTags = Append(@, tag)]

\* Variant of TakeTag that takes a tag with a - or + suffix as a patch tag
\* whatever its patch number: C13 must tell it from TakeTag.
TakeTagSuffixAsPatch(group, tag) ==
  IF tag.patch = 0 /\ \A i \in DOMAIN tag.name : tag.name[i] \notin {"-", "+"}
  THEN [group EXCEPT !.releaseTag = IF @ # null THEN @ ELSE tag.name]
  ELSE [group EXCEPT !.patchTags = Append(@, tag)]

\* Variant of TakeTag that puts a patch-0 tag among the patch tags of a
\* group that has its release tag already: C26 must tell it from TakeTag.
TakeTagSecondReleaseAsPatch(group, tag) ==
  IF tag.patch = 0 /\ group.releaseTag = null
  THEN [group EXCEPT !.releaseTag = tag.name]
  ELSE [group EXCEPT !.patchTags = Append(@, tag)]

\* The group after it took the tag: as its release tag if it had none and
\* the tag's patch is 0, among its patch tags if the patch is not 0.
TakeTag(group, tag) ==
  IF tag.patch = 0
  THEN [group EXCEPT !.releaseTag = IF @ # null THEN @ ELSE tag.name]
  ELSE [group EXCEPT !.patchTags = Append(@, tag)]

\* groups.set(key, group): an entry of the map keeps its place.
SetGroup(groups, i, group) ==
  IF i > 0 THEN [groups EXCEPT ![i] = group] ELSE Append(groups, group)

\* One pass of the loop over parsedTags, i being the place of the tag's
\* group in the map.
AddTagAt(groups, tag, i) == SetGroup(groups, i, TakeTag(GroupFor(groups, tag, i), tag))

AddTag(groups, tag) == AddTagAt(groups, tag, GroupIndex(groups, GroupKey(tag)))

\* The map after the loop over parsedTags.
RECURSIVE GroupTags(_)
GroupTags(parsedTags) ==
  IF parsedTags = <<>> THEN <<>>
  ELSE AddTag(GroupTags(SubSeq(parsedTags, 1, Len(parsedTags) - 1)),
              parsedTags[Len(parsedTags)])

\* Variant of HasReleaseTag that takes null for a release tag: C2 must tell
\* it from HasReleaseTag.
HasReleaseTagOrNull(group) == group.releaseTag # <<>>

\* .filter((group) => group.releaseTag): null and "" are falsy.
HasReleaseTag(group) == group.releaseTag # null /\ group.releaseTag # <<>>

\* Variant of FilterGroups that drops no group: C10 must tell it from
\* FilterGroups.
FilterGroupsKeepAll(gs) == gs

\* .filter(...) over the groups, in the map's order.
RECURSIVE FilterGroups(_)
FilterGroups(gs) ==
  IF gs = <<>> THEN <<>>
  ELSE (IF HasReleaseTag(Head(gs)) THEN <<Head(gs)>> ELSE <<>>) \o FilterGroups(Tail(gs))

\* Variant of CompareGroups that compares the minor numbers first: C4 must
\* tell it from CompareGroups.
CompareGroupsMinorFirst(a, b) ==
  IF a.minor # b.minor THEN a.minor - b.minor ELSE a.major - b.major

\* The comparator of the sort of the groups.
CompareGroups(a, b) ==
  IF a.major # b.major THEN a.major - b.major ELSE a.minor - b.minor

\* Variant of ComparePatch with its operands exchanged: C5 must tell it
\* from ComparePatch.
ComparePatchDescending(a, b) == b.patch - a.patch

\* The comparator of the sort of a group's patch tags.
ComparePatch(a, b) == a.patch - b.patch

\* Array.prototype.sort is stable: x, which came after every element of the
\* sorted sequence, goes before the first element that compares greater.
RECURSIVE InsertGroup(_, _)
InsertGroup(sorted, x) ==
  IF sorted = <<>> THEN <<x>>
  ELSE IF CompareGroups(Head(sorted), x) > 0 THEN <<x>> \o sorted
  ELSE <<Head(sorted)>> \o InsertGroup(Tail(sorted), x)

RECURSIVE SortGroups(_)
SortGroups(gs) ==
  IF gs = <<>> THEN <<>>
  ELSE InsertGroup(SortGroups(SubSeq(gs, 1, Len(gs) - 1)), gs[Len(gs)])

RECURSIVE InsertPatch(_, _)
InsertPatch(sorted, x) ==
  IF sorted = <<>> THEN <<x>>
  ELSE IF ComparePatch(Head(sorted), x) > 0 THEN <<x>> \o sorted
  ELSE <<Head(sorted)>> \o InsertPatch(Tail(sorted), x)

RECURSIVE SortPatchTags(_)
SortPatchTags(ts) ==
  IF ts = <<>> THEN <<>>
  ELSE InsertPatch(SortPatchTags(SubSeq(ts, 1, Len(ts) - 1)), ts[Len(ts)])

\* .map((tag) => tag.name)
TagNames(ts) == [i \in 1..Len(ts) |-> ts[i].name]

\* Variant of VersionOf that gives the text of the release tag where there
\* is one: C17 must tell it from VersionOf.
VersionOfReleaseTag(group) ==
  IF group.releaseTag # null
  THEN group.releaseTag
  ELSE NumberToString(group.major) \o <<".">> \o NumberToString(group.minor) \o <<".", "0">>

\* `${group.major}.${group.minor}.0`
VersionOf(group) ==
  NumberToString(group.major) \o <<".">> \o NumberToString(group.minor) \o <<".", "0">>

\* Variant of ReleaseOf that leaves the release tag out of totalTags: C6
\* must tell it from ReleaseOf.
ReleaseOfWithoutReleaseTag(group, patchTags) ==
  LET failedTags == Len(patchTags)
      totalTags == failedTags
  IN  [version |-> VersionOf(group),
       releaseTag |-> IF group.releaseTag # null THEN group.releaseTag ELSE VersionOf(group),
       patchTags |-> patchTags,
       totalTags |-> totalTags,
       failedTags |-> failedTags,
       changeFailureRate |-> rate(failedTags, totalTags)]

\* The CfrRelease of a group whose sorted patch tag names are patchTags.
ReleaseOf(group, patchTags) ==
  LET failedTags == Len(patchTags)
      totalTags == failedTags + 1
  IN  [version |-> VersionOf(group),
       releaseTag |-> IF group.releaseTag # null THEN group.releaseTag ELSE VersionOf(group),
       patchTags |-> patchTags,
       totalTags |-> totalTags,
       failedTags |-> failedTags,
       changeFailureRate |-> rate(failedTags, totalTags)]

\* The body of the .map over the kept groups.
ToRelease(group) == ReleaseOf(group, TagNames(SortPatchTags(group.patchTags)))

\* .map(...) over the kept, sorted groups.
ToReleases(kept) == [i \in 1..Len(kept) |-> ToRelease(kept[i])]

\* Variant of SumFailedTags that adds up totalTags: C7 must tell it from
\* SumFailedTags.
RECURSIVE SumTotalTags(_)
SumTotalTags(releases) ==
  IF releases = <<>> THEN 0
  ELSE SumTotalTags(SubSeq(releases, 1, Len(releases) - 1)) + releases[Len(releases)].totalTags

\* releases.reduce((sum, release) => sum + release.failedTags, 0)
RECURSIVE SumFailedTags(_)
SumFailedTags(releases) ==
  IF releases = <<>> THEN 0
  ELSE SumFailedTags(SubSeq(releases, 1, Len(releases) - 1)) + releases[Len(releases)].failedTags

\* Variant of RepoCfrResult that divides by the number of releases alone:
\* C9 must tell it from RepoCfrResult.
RepoCfrResultOverReleases(releases, totalReleases, totalPatchFailures) ==
  [totalReleases |-> totalReleases,
   totalPatchFailures |-> totalPatchFailures,
   changeFailureRate |-> rate(totalPatchFailures, totalReleases),
   releases |-> releases]

\* The returned object, from the releases and the two totals.
RepoCfrResult(releases, totalReleases, totalPatchFailures) ==
  LET overallTotalTags == totalReleases + totalPatchFailures
  IN  [totalReleases |-> totalReleases,
       totalPatchFailures |-> totalPatchFailures,
       changeFailureRate |-> rate(totalPatchFailures, overallTotalTags),
       releases |-> releases]

\* The totals and the returned object, from the releases.
Summarise(releases) == RepoCfrResult(releases, Len(releases), SumFailedTags(releases))

\* The RepoCfrResult built from the ParsedTags.
Aggregate(parsedTags) ==
  Summarise(ToReleases(SortGroups(FilterGroups(GroupTags(parsedTags)))))

\* What a call leaves behind, p being the outcome of the parse: the
\* ParsedTags it worked from, the RepoCfrResult it returns,
\* versionRegex.lastIndex when it returns, and whether it raised an error
\* instead of returning.
Computed(p) ==
  [parsedTags |-> p.parsedTags, result |-> Aggregate(p.parsedTags),
   lastIndex |-> p.lastIndex, threw |-> p.threw]

\* computeReleaseCfr(tags, versionRegex)
computeReleaseCfr(tags, versionRegex) == Computed(ParseTags(tags, versionRegex))

\* The caller's array after the call: map and filter build new arrays and
\* write nothing to the array they are called on, and nothing else in the
\* function refers to it.
TagsAfterCall(tags) == tags

\* Variant of HeldAfterCall in which the function keeps one result object
\* and returns it from every call: C16 must tell it from HeldAfterCall.
HeldAfterCallShared(held, returned) == returned

\* A result the caller still holds from an earlier call, after a later call
\* has returned `returned`: every call builds its map, its groups, its
\* arrays and its result object anew and the module keeps none of them, so
\* a later call writes to nothing an earlier result refers to.
HeldAfterCall(held, returned) == held

\* ---------------------------------------------------------------- state

VARIABLES
  tags,          \* the caller's tag list
  versionRegex,  \* the caller's pattern object: source, g flag, lastIndex
  called,        \* whether computeReleaseCfr has returned at least once
  parsedTags,    \* parsedTags of the latest call
  result,        \* the RepoCfrResult of the latest call
  failed,        \* rate's first argument
  total,         \* rate's second argument
  rateResult,    \* what rate returned, NoRate before it has
  threw,         \* whether the latest call raised an error instead of returning
  earlier,       \* <<the result of the call before the latest, as the caller
                 \* holds it now>>, or <<>> when there was no such call
  buildOptions,  \* buildReport's argument: repos, generatedAt, versionPattern
  report,        \* <<the CfrReport buildReport returned>>, <<>> before it has
  argv,          \* the arguments given to parseArgs
  cliOptions,    \* <<the CliOptions parseArgs returned>>, <<>> before it has
  storage,       \* localStorage: <<the item under "theme">>, <<>> without one
  prefersDark,   \* matchMedia("(prefers-color-scheme: dark)").matches
  theme,         \* ThemeProvider's theme state
  mounted,       \* ThemeProvider's mounted state
  rootDark,      \* whether document.documentElement has the class dark
  effectPending, \* whether the effect on [theme, mounted] is still to run
  stored,        \* what getItem("theme") gave the mount effect, <<>> for null
  changes,       \* calls of toggleTheme and setTheme so far
  toggles,       \* calls of toggleTheme since the mount or the last setTheme
  themeBefore,   \* the theme before those calls of toggleTheme
  mainPc,        \* where main of the report script is
  mainOptions,   \* main's options, as parseArgs returned them
  reposInput,    \* main's reposInput, as read from the repos file
  fetched,       \* what runGitTags found for the repositories done so far
  mainRepos,     \* main's repos, the entries pushed so far
  mainReport,    \* <<the report main has written>>, <<>> before it has
  hookPc,        \* where the promise chain of useCfrReport is
  active,        \* the effect's flag active; FALSE after the cleanup
  hookReport,    \* useCfrReport's report state: <<the report>>, <<>> for null
  hookError,     \* useCfrReport's error state: <<the message>>, <<>> for null
  loading,       \* useCfrReport's loading state
  carried,       \* what the promise chain hands to its next callback
  response,      \* how fetch settled, of kind "none" before it has
  unmountedAt    \* hookPc when the component unmounted, "never" if it has not

cfrVars == <<tags, versionRegex, called, parsedTags, result, threw, earlier>>

rateVars == <<failed, total, rateResult>>

reportVars == <<buildOptions, report>>

argsVars == <<argv, cliOptions>>

themeVars ==
  <<storage, prefersDark, theme, mounted, rootDark, effectPending, stored, changes,
    toggles, themeBefore>>

mainVars == <<mainPc, mainOptions, reposInput, fetched, mainRepos, mainReport>>

hookVars == <<hookPc, active, hookReport, hookError, loading, carried, response, unmountedAt>>

otherVars == <<reportVars, argsVars, themeVars, mainVars, hookVars>>

vars == <<cfrVars, rateVars, otherVars>>

NoResult ==
  [totalReleases |-> 0, totalPatchFailures |-> 0, changeFailureRate |-> 0, releases |-> <<>>]

NoRate == -1

\* Tag names callers pass: release tags, patch tags, the same version
\* written differently, versions whose order as numbers and as text
\* differ, a patch without its release, and names that are no version.
TagPool ==
  { <<"v", "1", ".", "0", ".", "0">>,
    <<"0", "1", ".", "0", ".", "0", "-", "a">>,
    <<"v", "1", ".", "0", ".", "2">>,
    <<"1", ".", "0", ".", "2", "+", "b">>,
    <<"v", "1", ".", "0", ".", "1", "0">>,
    <<"1", ".", "9", ".", "0">>,
    <<"v", "1", ".", "1", "0", ".", "0">>,
    <<"9", ".", "0", ".", "0">>,
    <<"v", "1", "0", ".", "0", ".", "0">>,
    <<"v", "2", ".", "1", ".", "1">>,
    <<"b", "u", "i", "l", "d", "-", "1", "2", "3">> }

\* Tag lists of at most n tags.
TagLists(n) == UNION {[1..k -> TagPool] : k \in 0..n}

\* The default pattern as callers make the object, without and with the g
\* flag: lastIndex is 0.
Regexes ==
  { [source |-> "default", global |-> FALSE, lastIndex |-> 0],
    [source |-> "default", global |-> TRUE, lastIndex |-> 0] }

\* No call of computeReleaseCfr has been made.
NotCalled ==
  /\ called = FALSE
  /\ threw = FALSE
  /\ parsedTags = <<>>
  /\ result = NoResult
  /\ earlier = <<>>

\* No call of rate on its own is being looked at.
NoRateCall ==
  /\ failed = 0
  /\ total = 0
  /\ rateResult = NoRate

\* No call of buildReport is being looked at.
NoReportCall ==
  /\ buildOptions = [repos |-> <<>>, generatedAt |-> <<>>, versionPattern |-> "default"]
  /\ report = <<>>

\* No call of parseArgs is being looked at.
NoArgsCall ==
  /\ argv = <<>>
  /\ cliOptions = <<>>

\* useState("light"), useState(false): the provider has rendered once and
\* no effect has run.
Rendered ==
  /\ theme = "light"
  /\ mounted = FALSE
  /\ effectPending = FALSE
  /\ stored = <<>>
  /\ changes = 0
  /\ toggles = 0
  /\ themeBefore = "light"

\* No ThemeProvider is being looked at.
NoTheme ==
  /\ storage = <<>>
  /\ prefersDark = FALSE
  /\ rootDark = FALSE
  /\ Rendered

\* main of the report script is not running.
NoMain ==
  /\ mainPc = "idle"
  /\ mainOptions = [versionPattern |-> "default", showHelp |-> FALSE]
  /\ reposInput = <<>>
  /\ fetched = <<>>
  /\ mainRepos = <<>>
  /\ mainReport = <<>>

\* useState(null), useState(null), useState(true): the component that
\* calls useCfrReport has rendered once; its effect has not run.
HookRendered ==
  /\ hookReport = <<>>
  /\ hookError = <<>>
  /\ loading = TRUE
  /\ carried = <<>>
  /\ response = [kind |-> "none", status |-> 0, body |-> ""]
  /\ unmountedAt = "never"

\* No component calls useCfrReport.
NoHook ==
  /\ hookPc = "idle"
  /\ active = FALSE
  /\ HookRendered

\* Neither main of the report script nor useCfrReport is being looked at.
NoMainNoHook == NoMain /\ NoHook

\* Nothing but computeReleaseCfr and rate is being looked at.
NoOtherCall == NoReportCall /\ NoArgsCall /\ NoTheme /\ NoMainNoHook

Init ==
  /\ tags \in TagLists(MaxTags)
  /\ versionRegex \in Regexes
  /\ NotCalled
  /\ NoRateCall
  /\ NoOtherCall

\* A call computeReleaseCfr(tags, versionRegex) by a caller that keeps the
\* result and still holds the result of the call before.  A call that
\* raises an error returns nothing.
Call ==
  \E r \in {computeReleaseCfr(tags, versionRegex)} :
      /\ called' = TRUE
      /\ threw' = r.threw
      /\ parsedTags' = r.parsedTags
      /\ result' = IF r.threw THEN result ELSE r.result
      /\ versionRegex' = [versionRegex EXCEPT !.lastIndex = r.lastIndex]
      /\ tags' = TagsAfterCall(tags)
      /\ earlier' = IF called /\ ~threw THEN <<HeldAfterCall(result, r.result)>> ELSE <<>>
      /\ UNCHANGED <<rateVars, otherVars>>

Next == Call

Spec == Init /\ [][Next]_vars

\* ------------------------------------------- patterns that accept more

\* Tag names for the patterns that accept more than versions: versions
\* with and without v, zeros or a suffix, a name that starts with v and is
\* no version, a version behind other text, and a name with neither.
PatternTagPool ==
  { <<"v", "1", ".", "0", ".", "0">>,
    <<"0", "1", ".", "0", ".", "0", "-", "a">>,
    <<"v", "1", ".", "0", ".", "2">>,
    <<"1", ".", "0", ".", "2", "+", "b">>,
    <<"v", "n", "e", "x", "t">>,
    <<"r", "-", "1", ".", "0", ".", "3">>,
    <<"b", "u", "i", "l", "d", "-", "1", "2", "3">> }

\* Every pattern with and without the g flag, lastIndex 0.
AllRegexes ==
  [source : {"default", "v", "triple"}, global : BOOLEAN, lastIndex : {0}]

InitPattern ==
  /\ tags \in UNION {[1..k -> PatternTagPool] : k \in 0..MaxTags}
  /\ versionRegex \in AllRegexes
  /\ NotCalled
  /\ NoRateCall
  /\ NoOtherCall

SpecPattern == InitPattern /\ [][Next]_vars

\* ------------------------------------------------------- rate on its own

\* No call of computeReleaseCfr is being looked at.
NoCfrCall ==
  /\ tags = <<>>
  /\ versionRegex = [source |-> "default", global |-> FALSE, lastIndex |-> 0]
  /\ NotCalled

InitRate ==
  /\ NoCfrCall
  /\ failed \in 0..MaxTotal
  /\ total \in 0..MaxTotal
  /\ rateResult = NoRate
  /\ NoOtherCall

\* A call rate(failed, total).
CallRate ==
  /\ rateResult' = rate(failed, total)
  /\ UNCHANGED <<cfrVars, failed, total, otherVars>>

NextRate == CallRate

SpecRate == InitRate /\ [][NextRate]_vars

\* ------------------------------------------------------------ buildReport

MaxRepos == 2

MaxCount == 1

\* rate of the report script, the same text as rate of the library.
ScriptRate(failedTags, totalTags) ==
  IF totalTags <= 0 THEN 0 ELSE NumberOf(toFixed(failedTags, totalTags))

\* Whether a repository entry has no error: repo.error === null.
HasNoError(repo) == repo.error = null

\* Variant of ReposForSummary that keeps every repository: C18 must tell it
\* from ReposForSummary.
ReposForSummaryAll(repos) == repos

\* options.repos.filter((repo) => repo.error === null)
ReposForSummary(repos) == SelectSeq(repos, HasNoError)

\* reduce((sum, repo) => sum + repo.totalReleases, 0)
RECURSIVE SumTotalReleases(_)
SumTotalReleases(repos) ==
  IF repos = <<>> THEN 0 ELSE Head(repos).totalReleases + SumTotalReleases(Tail(repos))

\* reduce((sum, repo) => sum + repo.totalPatchFailures, 0)
RECURSIVE SumPatchFailures(_)
SumPatchFailures(repos) ==
  IF repos = <<>> THEN 0 ELSE Head(repos).totalPatchFailures + SumPatchFailures(Tail(repos))

\* The summary of a report, from the repositories kept for it and their
\* sums.
SummaryOf(reposForSummary, summaryTotalReleases, summaryPatchFailures) ==
  [totalRepos |-> Len(reposForSummary),
   totalReleases |-> summaryTotalReleases,
   totalPatchFailures |-> summaryPatchFailures,
   changeFailureRate |->
     ScriptRate(summaryPatchFailures, summaryTotalReleases + summaryPatchFailures)]

\* The summary over the repositories kept for it.
SummaryOver(reposForSummary) ==
  SummaryOf(reposForSummary, SumTotalReleases(reposForSummary),
            SumPatchFailures(reposForSummary))

FailureRule == "Patch releases (x.y.z where z > 0) are failures; x.y.0 counts as a release."

\* buildReport(options) when new Date().toISOString() gives now.
buildReport(options, now) ==
  [generatedAt |-> IF options.generatedAt # <<>> THEN options.generatedAt[1] ELSE now,
   failureRule |-> FailureRule,
   versionPattern |-> options.versionPattern,
   repos |-> options.repos,
   summary |-> SummaryOver(ReposForSummary(options.repos))]

\* Repository entries: with and without an error (the empty message too),
\* with counts, also where there is an error.
RepoPool ==
  [totalReleases : 0..MaxCount,
   totalPatchFailures : 0..MaxCount,
   error : {null, <<"b", "o", "o", "m">>, <<>>}]

\* What the clock can say when generatedAt is not given.
Clock == {"2026-02-04T00:00:00.000Z", "2026-02-05T00:00:00.000Z"}

InitReport ==
  /\ NoCfrCall
  /\ NoRateCall
  /\ buildOptions \in
       [repos : UNION {[1..k -> RepoPool] : k \in 0..MaxRepos},
        generatedAt : {<<>>, <<"2026-02-03T00:00:00.000Z">>},
        versionPattern : {"default", "v"}]
  /\ report = <<>>
  /\ NoArgsCall
  /\ NoTheme
  /\ NoMainNoHook

\* A call buildReport(buildOptions).
CallBuildReport ==
  \E now \in Clock :
    /\ report' = <<buildReport(buildOptions, now)>>
    /\ UNCHANGED <<cfrVars, rateVars, buildOptions, argsVars, themeVars, mainVars, hookVars>>

NextReport == CallBuildReport

SpecReport == InitReport /\ [][NextReport]_vars

\* -------------------------------------------------------------- parseArgs

MaxArgs == 4

DEFAULT_VERSION_PATTERN == "^v?\\d+\\.\\d+\\.\\d+(?:[-+].+)?$"

DEFAULT_OPTIONS ==
  [reposPath |-> "repos.json",
   outPath |-> "public/data/cfr.json",
   versionPattern |-> DEFAULT_VERSION_PATTERN,
   showHelp |-> FALSE]

\* The flags that take the argument after them as their value.
ValueFlags == {"--repos", "--out", "--version-pattern"}

\* Variant of HasValue that takes the empty string for a value: C30 must
\* tell it from HasValue.
HasValueOrEmpty(args, k) == k + 1 <= Len(args)

\* argv[i + 1] as a condition, for the argument at place k (1-based):
\* there is a next argument and it is not the empty string.
HasValue(args, k) == k + 1 <= Len(args) /\ args[k + 1] # ""

\* Variant of WithValue in which a value given earlier stays: C19 must tell
\* it from WithValue.
WithValueFirstWins(options, arg, value) ==
  CASE arg = "--repos" ->
         IF options.reposPath = DEFAULT_OPTIONS.reposPath
         THEN [options EXCEPT !.reposPath = value] ELSE options
    [] arg = "--out" ->
         IF options.outPath = DEFAULT_OPTIONS.outPath
         THEN [options EXCEPT !.outPath = value] ELSE options
    [] arg = "--version-pattern" ->
         IF options.versionPattern = DEFAULT_OPTIONS.versionPattern
         THEN [options EXCEPT !.versionPattern = value] ELSE options

\* The options after a value flag took its value.
WithValue(options, arg, value) ==
  CASE arg = "--repos" -> [options EXCEPT !.reposPath = value]
    [] arg = "--out" -> [options EXCEPT !.outPath = value]
    [] arg = "--version-pattern" -> [options EXCEPT !.versionPattern = value]

\* The loop of parseArgs from place k (1-based) on: --help and -h set
\* showHelp, a value flag with a value takes it and skips it, anything else
\* is passed over.
RECURSIVE ParseFrom(_, _, _)
ParseFrom(args, k, options) ==
  IF k > Len(args)
  THEN options
  ELSE IF args[k] = "--help" \/ args[k] = "-h"
  THEN ParseFrom(args, k + 1, [options EXCEPT !.showHelp = TRUE])
  ELSE IF args[k] \in ValueFlags /\ HasValue(args, k)
  THEN ParseFrom(args, k + 2, WithValue(options, args[k], args[k + 1]))
  ELSE ParseFrom(args, k + 1, options)

parseArgs(args) == ParseFrom(args, 1, DEFAULT_OPTIONS)

\* Arguments: the flags, two values and the empty string.
ArgPool == {"--help", "-h", "--repos", "--out", "--version-pattern", "x", "y", ""}

InitArgs ==
  /\ NoCfrCall
  /\ NoRateCall
  /\ NoReportCall
  /\ argv \in UNION {[1..k -> ArgPool] : k \in 0..MaxArgs}
  /\ cliOptions = <<>>
  /\ NoTheme
  /\ NoMainNoHook

\* A call parseArgs(argv).
CallParseArgs ==
  /\ cliOptions' = <<parseArgs(argv)>>
  /\ UNCHANGED <<cfrVars, rateVars, reportVars, argv, themeVars, mainVars, hookVars>>

NextArgs == CallParseArgs

SpecArgs == InitArgs /\ [][NextArgs]_vars

\* ---------------------------------------------------------- ThemeProvider

MaxChanges == 3

\* localStorage.getItem("theme"): <<the item>>, or <<>> for null.
getItem(items) == items

\* if (stored): the item is there and is not the empty string.
Truthy(item) == item # <<>> /\ item[1] # ""

\* Variant of initializeTheme that asks the system preference first: C20
\* must tell it from initializeTheme.
initializeThemeSystemFirst(item, dark) ==
  IF dark THEN "dark" ELSE IF Truthy(item) THEN item[1] ELSE "light"

\* initializeTheme() in a browser, where getItem gave item and matchMedia
\* says dark.
initializeTheme(item, dark) ==
  IF Truthy(item) THEN item[1] ELSE IF dark THEN "dark" ELSE "light"

\* Variant of setItem that writes nothing: C22 must tell it from setItem.
setItemDropped(items, value) == items

\* localStorage after setItem("theme", value).
setItem(items, value) == <<value>>

\* Variant of classListAfter that never removes the class: C23 must tell
\* it from classListAfter.
classListAddOnly(dark, current) == dark \/ current = "dark"

\* Whether the root element has the class dark after the effect: added if
\* the theme is dark, removed if it is not.
classListAfter(dark, current) == IF current = "dark" THEN TRUE ELSE FALSE

\* (prev) => (prev === "light" ? "dark" : "light")
toggled(prev) == IF prev = "light" THEN "dark" ELSE "light"

\* What localStorage can hold under "theme" before the provider mounts:
\* nothing, a theme, the empty string, or something else.
StoredPool == {<<>>, <<"light">>, <<"dark">>, <<"">>, <<"blue">>}

InitTheme ==
  /\ NoCfrCall
  /\ NoRateCall
  /\ NoReportCall
  /\ NoArgsCall
  /\ storage \in StoredPool
  /\ prefersDark \in BOOLEAN
  /\ rootDark \in BOOLEAN
  /\ Rendered
  /\ NoMainNoHook

\* The effects after the first render: the first reads the stored and the
\* system preference, sets theme and mounted; the second finds mounted false
\* and returns, and is to run again after the render the first has asked
\* for.
MountEffect ==
  /\ ~mounted
  /\ stored' = getItem(storage)
  /\ theme' = initializeTheme(getItem(storage), prefersDark)
  /\ mounted' = TRUE
  /\ effectPending' = TRUE
  /\ themeBefore' = initializeTheme(getItem(storage), prefersDark)
  /\ UNCHANGED <<cfrVars, rateVars, reportVars, argsVars, mainVars, hookVars, storage, prefersDark, rootDark, changes,
                 toggles>>

\* The effect on [theme, mounted], once mounted: sets or removes the class
\* dark and writes the theme to localStorage.
ApplyEffect ==
  /\ mounted
  /\ effectPending
  /\ rootDark' = classListAfter(rootDark, theme)
  /\ storage' = setItem(storage, theme)
  /\ effectPending' = FALSE
  /\ UNCHANGED <<cfrVars, rateVars, reportVars, argsVars, mainVars, hookVars, prefersDark, theme, mounted, stored, changes,
                 toggles, themeBefore>>

\* toggleTheme() from a consumer, after the effects of the render before
\* have run.
ToggleTheme ==
  /\ mounted
  /\ ~effectPending
  /\ changes < MaxChanges
  /\ theme' = toggled(theme)
  /\ effectPending' = TRUE
  /\ changes' = changes + 1
  /\ toggles' = toggles + 1
  /\ UNCHANGED <<cfrVars, rateVars, reportVars, argsVars, mainVars, hookVars, storage, prefersDark, mounted, rootDark, stored,
                 themeBefore>>

\* setTheme(newTheme) from a consumer; the same theme asks for no render.
SetTheme ==
  \E newTheme \in {"light", "dark"} :
    /\ mounted
    /\ ~effectPending
    /\ changes < MaxChanges
    /\ theme' = newTheme
    /\ effectPending' = (newTheme # theme)
    /\ changes' = changes + 1
    /\ toggles' = 0
    /\ themeBefore' = newTheme
    /\ UNCHANGED <<cfrVars, rateVars, reportVars, argsVars, mainVars, hookVars, storage, prefersDark, mounted, rootDark, stored>>

NextTheme == MountEffect \/ ApplyEffect \/ ToggleTheme \/ SetTheme

SpecTheme == InitTheme /\ [][NextTheme]_vars

\* React runs the effects of a render it has committed: an effect that is
\* to run does run.
SpecThemeLive ==
  InitTheme /\ [][NextTheme]_vars /\ WF_vars(MountEffect) /\ WF_vars(ApplyEffect)

\* ----------------------------------------------------- main of the script

MaxInput == 2

WhiteSpace == {" ", "\t", "\n"}

RECURSIVE TrimStart(_)
TrimStart(s) == IF s # <<>> /\ Head(s) \in WhiteSpace THEN TrimStart(Tail(s)) ELSE s

RECURSIVE TrimEnd(_)
TrimEnd(s) ==
  IF s # <<>> /\ s[Len(s)] \in WhiteSpace THEN TrimEnd(SubSeq(s, 1, Len(s) - 1)) ELSE s

\* s.trim()
Trim(s) == TrimEnd(TrimStart(s))

StartsWith(s, prefix) == Len(s) >= Len(prefix) /\ SubSeq(s, 1, Len(prefix)) = prefix

EndsWith(s, suffix) ==
  Len(s) >= Len(suffix) /\ SubSeq(s, Len(s) - Len(suffix) + 1, Len(s)) = suffix

\* /\.git$/i: whether s ends with .git in any case.
EndsWithDotGit(s) ==
  /\ Len(s) >= 4
  /\ s[Len(s) - 3] = "."
  /\ s[Len(s) - 2] \in {"g", "G"}
  /\ s[Len(s) - 1] \in {"i", "I"}
  /\ s[Len(s)] \in {"t", "T"}

\* s.lastIndexOf(c), 0-based, -1 where c is not in s.
lastIndexOf(s, c) ==
  LET places == {i \in DOMAIN s : s[i] = c}
  IN  IF places = {} THEN -1 ELSE (CHOOSE i \in places : \A j \in places : j <= i) - 1

\* The name with the text up to splitIndex cut off.
NameAfter(trimmed, splitIndex) ==
  IF splitIndex >= 0 THEN SubSeq(trimmed, splitIndex + 2, Len(trimmed)) ELSE trimmed

\* Math.max(lastSlash, lastColon)
SplitIndex(lastSlash, lastColon) == IF lastSlash >= lastColon THEN lastSlash ELSE lastColon

\* The name for a url from which .git has been cut.
NameOfTrimmed(trimmed) ==
  NameAfter(trimmed, SplitIndex(lastIndexOf(trimmed, "/"), lastIndexOf(trimmed, ":")))

deriveNameFromUrl(url) ==
  NameOfTrimmed(IF EndsWithDotGit(url) THEN SubSeq(url, 1, Len(url) - 4) ELSE url)

\* repo.name?.trim() || deriveNameFromUrl(repo.url); name is <<>> where the
\* entry has none, <<the name>> where it has.
NameOf(repo) ==
  IF repo.name # <<>> /\ Trim(repo.name[1]) # <<>>
  THEN Trim(repo.name[1])
  ELSE deriveNameFromUrl(repo.url)

ExitCodeMessage ==
  <<"g", "i", "t", " ", "l", "s", "-", "r", "e", "m", "o", "t", "e", " ", "f", "a", "i", "l", "e", "d",
    " ", "w", "i", "t", "h", " ", "e", "x", "i", "t", " ", "c", "o", "d", "e", " ">>

\* stderrText.trim() || `git ls-remote failed with exit code ${exitCode}`
MessageOf(trimmedStderr, exitCode) ==
  IF trimmedStderr # <<>> THEN trimmedStderr ELSE ExitCodeMessage \o NumberToString(exitCode)

\* What runGitTags returns for a git process that has ended.  stdout is
\* held as its lines, a line as its fields between white space.
runGitTags(proc) ==
  IF proc.exitCode # 0
  THEN [output |-> <<>>, error |-> MessageOf(Trim(proc.stderr), proc.exitCode)]
  ELSE [output |-> proc.stdout, error |-> null]

RefsTags == <<"r", "e", "f", "s", "/", "t", "a", "g", "s", "/">>

Peeled == <<"^", "{", "}">>

\* Whether a line is kept for its ref: the line is not empty, has a second
\* field, and the field starts with refs/tags/ and does not end with ^{}.
IsTagLine(line) ==
  /\ Len(line) >= 2
  /\ line[2] # <<>>
  /\ StartsWith(line[2], RefsTags)
  /\ ~EndsWith(line[2], Peeled)

\* ref.replace("refs/tags/", "") for a ref that starts with it.
TagOfRef(ref) == SubSeq(ref, Len(RefsTags) + 1, Len(ref))

RECURSIVE TagsOfLines(_)
TagsOfLines(lines) ==
  IF lines = <<>>
  THEN <<>>
  ELSE <<TagOfRef(Head(lines)[2])>> \o TagsOfLines(Tail(lines))

parseTags(output) == TagsOfLines(SelectSeq(output, IsTagLine))

\* if (error): the message is there and is not empty.
IsError(error) == error # null /\ error # <<>>

\* The entry pushed for a repository whose tags could not be fetched.
ErrorEntry(name, url, error) ==
  [name |-> name,
   url |-> url,
   totalReleases |-> 0,
   totalPatchFailures |-> 0,
   changeFailureRate |-> 0,
   releases |-> <<>>,
   error |-> error]

\* The entry pushed for a repository whose tags gave repoResult.
ResultEntry(name, url, repoResult) ==
  [name |-> name,
   url |-> url,
   totalReleases |-> repoResult.totalReleases,
   totalPatchFailures |-> repoResult.totalPatchFailures,
   changeFailureRate |-> repoResult.changeFailureRate,
   releases |-> repoResult.releases,
   error |-> null]

\* new RegExp(options.versionPattern): no flags.
MainRegex(options) == [source |-> options.versionPattern, global |-> FALSE, lastIndex |-> 0]

\* Variant of pcAfterError in which the loop ends at the first repository
\* that could not be fetched: C24 must tell it from pcAfterError.
pcAfterErrorBreak == "break"

\* continue: after the entry of a failed fetch the loop goes on.
pcAfterError == "loop"

Sha == <<"a", "1">>

TagV100 == <<"v", "1", ".", "0", ".", "0">>

TagV102 == <<"v", "1", ".", "0", ".", "2">>

TagV211 == <<"v", "2", ".", "1", ".", "1">>

\* What git ls-remote --tags can print: nothing; two tags, one of them also
\* peeled, an empty line, a ref that is no tag and a line of one field; a
\* patch tag alone.
OutputPool ==
  { <<>>,
    << <<Sha, RefsTags \o TagV100>>,
       <<Sha, RefsTags \o TagV102>>,
       <<Sha, RefsTags \o TagV102 \o Peeled>>,
       <<>>,
       <<Sha, <<"r", "e", "f", "s", "/", "h", "e", "a", "d", "s", "/", "m", "a", "i", "n">>>>,
       <<Sha>> >>,
    << <<Sha, RefsTags \o TagV211>> >> }

\* How the git process can end: exit code 0 with output, or another exit
\* code with or without a message on stderr.
ProcessResults ==
  [exitCode : {0}, stdout : OutputPool, stderr : {<<>>}]
    \cup [exitCode : {128}, stdout : {<<>>}, stderr : {<<"f", "a", "t", "a", "l", ":", " ", "n", "o", " ", "r", "e", "p", "o">>}]
    \cup [exitCode : {1}, stdout : {<<>>}, stderr : {<<" ", "\n">>}]

\* Entries of the repos file: without a name, with a name in spaces, with a
\* name of spaces only.
RepoInputPool ==
  { [name |-> <<>>, url |-> <<"x", "/", "a", ".", "g", "i", "t">>],
    [name |-> << <<" ", "b", " ">> >>, url |-> <<"h", ":", "c">>],
    [name |-> << <<" ">> >>, url |-> <<"d", ".", "G", "I", "T">>] }

InitMain ==
  /\ NoCfrCall
  /\ NoRateCall
  /\ NoReportCall
  /\ NoArgsCall
  /\ NoTheme
  /\ NoHook
  /\ mainPc = "start"
  /\ mainOptions \in [versionPattern : {"default", "v"}, showHelp : BOOLEAN]
  /\ reposInput \in UNION {[1..k -> RepoInputPool] : k \in 0..MaxInput}
  /\ fetched = <<>>
  /\ mainRepos = <<>>
  /\ mainReport = <<>>

notMainVars == <<cfrVars, rateVars, reportVars, argsVars, themeVars, hookVars>>

\* main up to the loop: with showHelp it prints the help and returns.
StartMain ==
  /\ mainPc = "start"
  /\ mainPc' = IF mainOptions.showHelp THEN "help" ELSE "loop"
  /\ UNCHANGED <<notMainVars, mainOptions, reposInput, fetched, mainRepos, mainReport>>

\* The entry and the place in main after a repository whose git process
\* ended as proc and whose fetch gave got.
AfterFetch(repo, got, options) ==
  IF IsError(got.error)
  THEN [entry |-> ErrorEntry(NameOf(repo), repo.url, got.error), pc |-> pcAfterError]
  ELSE [entry |-> ResultEntry(NameOf(repo), repo.url,
                              computeReleaseCfr(parseTags(got.output), MainRegex(options)).result),
        pc |-> "loop"]

\* One turn of the loop over reposInput, for the next repository.
ProcessRepo ==
  /\ mainPc = "loop"
  /\ Len(mainRepos) < Len(reposInput)
  /\ \E proc \in ProcessResults :
       \E after \in {AfterFetch(reposInput[Len(mainRepos) + 1], runGitTags(proc), mainOptions)} :
         /\ fetched' = Append(fetched, proc)
         /\ mainRepos' = Append(mainRepos, after.entry)
         /\ mainPc' = after.pc
  /\ UNCHANGED <<notMainVars, mainOptions, reposInput, mainReport>>

\* After the loop: buildReport and writeFile.
WriteReport ==
  /\ \/ mainPc = "loop" /\ Len(mainRepos) = Len(reposInput)
     \/ mainPc = "break"
  /\ \E now \in Clock :
       mainReport' =
         <<buildReport([repos |-> mainRepos,
                        versionPattern |-> mainOptions.versionPattern,
                        generatedAt |-> <<>>], now)>>
  /\ mainPc' = "done"
  /\ UNCHANGED <<notMainVars, mainOptions, reposInput, fetched, mainRepos>>

NextMain == StartMain \/ ProcessRepo \/ WriteReport

SpecMain == InitMain /\ [][NextMain]_vars

\* ------------------------------------------------------------ useCfrReport

\* Bodies a response can have: two reports, the JSON text null, a page
\* that is no JSON, and nothing.
ReportBodies == {"{\"repos\":[]}", "{\"repos\":[{}]}"}

BodyPool == ReportBodies \cup {"null", "<html>", ""}

\* response.json(): the parsed body, or the SyntaxError of a body that is
\* no JSON.  The value of the JSON text null is null.
Json(body) ==
  IF body \in ReportBodies THEN [ok |-> TRUE, value |-> <<body>>]
  ELSE IF body = "null" THEN [ok |-> TRUE, value |-> <<>>]
  ELSE [ok |-> FALSE, value |-> <<"Unexpected token">>]

\* `Missing data file (HTTP ${response.status})`
MissingDataFile(status) == "Missing data file (HTTP " \o ToString(status) \o ")"

\* How fetch can settle: rejected (no network), or fulfilled with a
\* response, ok for a status in 200..299.
FetchOutcomes ==
  {[kind |-> "rejected", status |-> 0, body |-> "Failed to fetch"]} \cup
  [kind : {"response"}, status : {200, 404, 500}, body : BodyPool]

ResponseOk(res) == res.status >= 200 /\ res.status <= 299

\* Variant of AfterFetchSettled that reads the body whatever the status:
\* C29 must tell it from AfterFetchSettled.
AfterFetchSettledUnchecked(res) ==
  IF res.kind = "rejected" THEN [pc |-> "catch", carried |-> <<res.body>>]
  ELSE [pc |-> "json", carried |-> <<res.body>>]

\* The first .then on the promise of fetch: a rejection goes on to .catch
\* with its message, a response that is not ok throws, and an ok response
\* gives the promise of response.json().
AfterFetchSettled(res) ==
  IF res.kind = "rejected" THEN [pc |-> "catch", carried |-> <<res.body>>]
  ELSE IF ~ResponseOk(res) THEN [pc |-> "catch", carried |-> <<MissingDataFile(res.status)>>]
  ELSE [pc |-> "json", carried |-> <<res.body>>]

\* Variant of IfActive that makes the update whatever active is: C28 must
\* tell it from IfActive.
IfActiveOrNot(isActive, new, old) == new

\* if (!active) return: the state after a callback that would set it to
\* new.
IfActive(isActive, new, old) == IF isActive THEN new ELSE old

notHookVars == <<cfrVars, rateVars, reportVars, argsVars, themeVars, mainVars>>

InitHook ==
  /\ NoCfrCall
  /\ NoRateCall
  /\ NoReportCall
  /\ NoArgsCall
  /\ NoTheme
  /\ NoMain
  /\ hookPc = "rendered"
  /\ active = FALSE
  /\ HookRendered

\* The effect after the first render: active = true and the call of fetch.
HookEffect ==
  /\ hookPc = "rendered"
  /\ active' = TRUE
  /\ hookPc' = "pending"
  /\ UNCHANGED <<notHookVars, hookReport, hookError, loading, carried, response, unmountedAt>>

\* fetch settles and the first .then runs.
FetchSettles ==
  /\ hookPc = "pending"
  /\ \E res \in FetchOutcomes :
       /\ response' = res
       /\ hookPc' = AfterFetchSettled(res).pc
       /\ carried' = AfterFetchSettled(res).carried
  /\ UNCHANGED <<notHookVars, active, hookReport, hookError, loading, unmountedAt>>

\* The promise of response.json() settles.
JsonSettles ==
  /\ hookPc = "json"
  /\ \E parsed \in {Json(carried[1])} :
       /\ hookPc' = IF parsed.ok THEN "then" ELSE "catch"
       /\ carried' = parsed.value
  /\ UNCHANGED <<notHookVars, active, hookReport, hookError, loading, response, unmountedAt>>

\* The second .then: setReport(data); setError(null).  carried is the
\* data, <<>> for null.
ThenData ==
  /\ hookPc = "then"
  /\ hookReport' = IfActive(active, carried, hookReport)
  /\ hookError' = IfActive(active, <<>>, hookError)
  /\ hookPc' = "finally"
  /\ UNCHANGED <<notHookVars, active, loading, carried, response, unmountedAt>>

\* .catch: setError(err.message).
CatchError ==
  /\ hookPc = "catch"
  /\ hookError' = IfActive(active, carried, hookError)
  /\ hookPc' = "finally"
  /\ UNCHANGED <<notHookVars, active, hookReport, loading, carried, response, unmountedAt>>

\* .finally: setLoading(false).
Finally ==
  /\ hookPc = "finally"
  /\ loading' = IfActive(active, FALSE, loading)
  /\ hookPc' = "done"
  /\ UNCHANGED <<notHookVars, active, hookReport, hookError, carried, response, unmountedAt>>

\* The component unmounts: the cleanup of the effect sets active = false.
Unmount ==
  /\ active
  /\ active' = FALSE
  /\ unmountedAt' = hookPc
  /\ UNCHANGED <<notHookVars, hookPc, hookReport, hookError, loading, carried, response>>

NextHook ==
  HookEffect \/ FetchSettles \/ JsonSettles \/ ThenData \/ CatchError \/ Finally \/ Unmount

SpecHook == InitHook /\ [][NextHook]_vars

\* ------------------------------------------------------ reading a result

\* The (major, minor) a release stands for, read back from its version text.
VersionMajor(release) == ToNumber(SEMVER_PREFIX(release.version).m1)

VersionMinor(release) == ToNumber(SEMVER_PREFIX(release.version).m2)

\* Whether an accepted tag has the (major, minor) of a release.
TagOfRelease(tag, release) ==
  tag.major = VersionMajor(release) /\ tag.minor = VersionMinor(release)

\* Whether two accepted tags have the same (major, minor).
SameGroup(a, b) == a.major = b.major /\ a.minor = b.minor

\* Places in parsedTags of the accepted patch tags (patch # 0) of a release.
PatchPlaces(release) ==
  {i \in DOMAIN parsedTags : TagOfRelease(parsedTags[i], release) /\ parsedTags[i].patch # 0}

\* Places in parsedTags of the accepted patch-0 tags of a release.
ReleasePlaces(release) ==
  {i \in DOMAIN parsedTags : TagOfRelease(parsedTags[i], release) /\ parsedTags[i].patch = 0}

\* Whether the accepted tag at place i has an accepted patch-0 tag in its
\* (major, minor) group.
GroupHasRelease(i) ==
  \E j \in DOMAIN parsedTags : SameGroup(parsedTags[i], parsedTags[j]) /\ parsedTags[j].patch = 0

Releases == result.releases

\* ------------------------------------------------------------------ C1

\* C1: every release's failedTags is the number of accepted input tags
\* with the release's (major, minor) and patch # 0; accepted tags of other
\* (major, minor) pairs do not enter the count.
C1_GroupedByMajorMinor ==
  called =>
    \A k \in DOMAIN Releases : Releases[k].failedTags = Cardinality(PatchPlaces(Releases[k]))

\* A release with a patch tag, beside an accepted patch tag of another
\* (major, minor).
C1_Witness ==
  /\ called
  /\ \E k \in DOMAIN Releases :
       /\ Releases[k].failedTags >= 1
       /\ \E i \in DOMAIN parsedTags :
            ~TagOfRelease(parsedTags[i], Releases[k]) /\ parsedTags[i].patch # 0

\* ------------------------------------------------------------------ C2

\* C2: an accepted tag whose (major, minor) group has no accepted patch-0
\* tag has no release of its (major, minor) and is listed in no release's
\* patchTags, and totalPatchFailures counts exactly the accepted patch tags
\* whose group has a patch-0 tag.
C2_GroupWithoutReleaseExcluded ==
  called =>
    /\ \A i \in DOMAIN parsedTags :
         ~GroupHasRelease(i) =>
           \A k \in DOMAIN Releases :
             /\ ~TagOfRelease(parsedTags[i], Releases[k])
             /\ \A n \in DOMAIN Releases[k].patchTags :
                  Releases[k].patchTags[n] # parsedTags[i].name
    /\ result.totalPatchFailures =
         Cardinality({i \in DOMAIN parsedTags : parsedTags[i].patch # 0 /\ GroupHasRelease(i)})

\* A patch tag without its release, beside a release that has a patch tag.
C2_Witness ==
  /\ called
  /\ \E i \in DOMAIN parsedTags : ~GroupHasRelease(i)
  /\ result.totalPatchFailures >= 1

\* ------------------------------------------------------------------ C3

\* C3: a release's releaseTag is the first accepted patch-0 tag of its
\* (major, minor) in input order; no accepted patch-0 tag is listed in any
\* patchTags, failedTags counts the patch tags only, and no two releases
\* have the same (major, minor).
C3_FirstReleaseTagKept ==
  called =>
    /\ \A k \in DOMAIN Releases :
         /\ ReleasePlaces(Releases[k]) # {}
         /\ \E i \in ReleasePlaces(Releases[k]) :
              /\ \A j \in ReleasePlaces(Releases[k]) : i <= j
              /\ Releases[k].releaseTag = parsedTags[i].name
         /\ \A n \in DOMAIN Releases[k].patchTags :
              \A i \in DOMAIN parsedTags :
                parsedTags[i].patch = 0 => Releases[k].patchTags[n] # parsedTags[i].name
         /\ Releases[k].failedTags = Cardinality(PatchPlaces(Releases[k]))
    /\ \A k, l \in DOMAIN Releases :
         k # l => ~(/\ VersionMajor(Releases[k]) = VersionMajor(Releases[l])
                    /\ VersionMinor(Releases[k]) = VersionMinor(Releases[l]))

\* Two accepted patch-0 tags of one (major, minor), written differently,
\* and a patch tag of that release.
C3_Witness ==
  /\ called
  /\ \E k \in DOMAIN Releases :
       /\ \E i, j \in ReleasePlaces(Releases[k]) :
            i < j /\ parsedTags[i].name # parsedTags[j].name
       /\ Releases[k].failedTags >= 1

\* ------------------------------------------------------------------ C4

\* C4: the releases are strictly ascending by (major, minor) as numbers,
\* major first, so no (major, minor) occurs twice.
C4_ReleasesAscending ==
  called =>
    \A k, l \in DOMAIN Releases :
      k < l =>
        \/ VersionMajor(Releases[k]) < VersionMajor(Releases[l])
        \/ /\ VersionMajor(Releases[k]) = VersionMajor(Releases[l])
           /\ VersionMinor(Releases[k]) < VersionMinor(Releases[l])

\* Releases 1.10, 9.0 and 10.0, in that order, from tags given in the
\* opposite order: the order as text would be 1.10, 10.0, 9.0.
C4_Witness ==
  /\ called
  /\ Len(Releases) = 3
  /\ Releases[1].version = <<"1", ".", "1", "0", ".", "0">>
  /\ Releases[2].version = <<"9", ".", "0", ".", "0">>
  /\ Releases[3].version = <<"1", "0", ".", "0", ".", "0">>
  /\ Len(parsedTags) = 3
  /\ parsedTags[1].major = 10
  /\ parsedTags[3].major = 1

\* ------------------------------------------------------------------ C5

\* The accepted patch tags of a release, in input order.
RECURSIVE PatchesInOrder(_, _)
PatchesInOrder(release, n) ==
  IF n = 0 THEN <<>>
  ELSE PatchesInOrder(release, n - 1) \o (IF n \in PatchPlaces(release) THEN <<parsedTags[n]>> ELSE <<>>)

\* The place the i-th of these tags must take: after every tag with a
\* smaller patch number and every earlier tag with the same patch number.
PlaceOf(ts, i) ==
  1 + Cardinality({j \in DOMAIN ts :
                     \/ ts[j].patch < ts[i].patch
                     \/ ts[j].patch = ts[i].patch /\ j < i})

\* C5: in every release, patchTags holds the names of the release's
\* accepted patch tags by ascending patch number, tags with the same patch
\* number in their input order.
C5_PatchTagsSortedStable ==
  called =>
    \A k \in DOMAIN Releases :
      LET ts == PatchesInOrder(Releases[k], Len(parsedTags))
      IN  /\ Len(Releases[k].patchTags) = Len(ts)
          /\ \A i \in DOMAIN ts : Releases[k].patchTags[PlaceOf(ts, i)] = ts[i].name

\* A release with two patch tags of the same patch number, written
\* differently.
C5_Witness ==
  /\ called
  /\ \E k \in DOMAIN Releases :
       LET ts == PatchesInOrder(Releases[k], Len(parsedTags))
       IN  \E i, j \in DOMAIN ts :
             i < j /\ ts[i].patch = ts[j].patch /\ ts[i].name # ts[j].name

\* ------------------------------------------------------------------ C6

\* C6: every release has failedTags = Len(patchTags) and
\* totalTags = 1 + Len(patchTags), hence totalTags >= 1.
C6_ReleaseCounts ==
  called =>
    \A k \in DOMAIN Releases :
      /\ Releases[k].failedTags = Len(Releases[k].patchTags)
      /\ Releases[k].totalTags = 1 + Len(Releases[k].patchTags)
      /\ Releases[k].totalTags >= 1

\* A release with two patch tags.
C6_Witness ==
  called /\ \E k \in DOMAIN Releases : Len(Releases[k].patchTags) = 2

\* ------------------------------------------------------------------ C7

\* C7: totalReleases is the number of releases and totalPatchFailures the
\* sum of their failedTags (counted as the pairs of a release and one of
\* its failures).
C7_Totals ==
  called =>
    /\ result.totalReleases = Len(Releases)
    /\ result.totalPatchFailures =
         Cardinality(UNION {{<<k, n>> : n \in 1..Releases[k].failedTags} : k \in DOMAIN Releases})

\* Two releases, one of them with a patch tag.
C7_Witness ==
  called /\ Len(Releases) = 2 /\ result.totalPatchFailures >= 1

\* ------------------------------------------------------------------ C8

\* C8: rate(failed, total) is 0 when total = 0; for total > 0 and
\* 0 <= failed <= total the text it is read from has four decimals and the
\* value is within 0.00005 of failed / total, that is, within total / 2 of
\* it once both are multiplied by 10^4 * total.
C8_RateRounding ==
  rateResult # NoRate =>
    /\ total = 0 => rateResult = 0
    /\ (total > 0 /\ failed <= total) =>
         /\ Len(toFixed(failed, total)) = PointAt(toFixed(failed, total), 0) + 1 + FractionDigits
         /\ 2 * (rateResult * total - Scale * failed) <= total
         /\ 2 * (Scale * failed - rateResult * total) <= total

\* rate(1, 32): the ratio 0.03125 is halfway between 0.0312 and 0.0313.
C8_Witness ==
  rateResult # NoRate /\ failed = 1 /\ total = 32 /\ rateResult = 313

\* ------------------------------------------------------------------ C9

\* C9: the result's changeFailureRate is
\* rate(totalPatchFailures, totalReleases + totalPatchFailures), every
\* release's is rate(failedTags, totalTags), and a result with exactly one
\* release has that release's rate.
C9_RatesFromCounts ==
  called =>
    /\ result.changeFailureRate =
         rate(result.totalPatchFailures, result.totalReleases + result.totalPatchFailures)
    /\ \A k \in DOMAIN Releases :
         Releases[k].changeFailureRate = rate(Releases[k].failedTags, Releases[k].totalTags)
    /\ Len(Releases) = 1 => result.changeFailureRate = Releases[1].changeFailureRate

\* One release with two patch tags: both rates are 0.6667.
C9_Witness ==
  /\ called
  /\ Len(Releases) = 1
  /\ Releases[1].failedTags = 2
  /\ result.changeFailureRate = 6667

\* ------------------------------------------------------------------ C10

\* C10: when no accepted tag has patch 0 (no tags, every tag rejected, or
\* patch tags only), the result is releases = [], totalReleases = 0,
\* totalPatchFailures = 0, changeFailureRate = 0.
C10_NoReleaseAllZero ==
  (called /\ \A i \in DOMAIN parsedTags : parsedTags[i].patch # 0) =>
    /\ result.releases = <<>>
    /\ result.totalReleases = 0
    /\ result.totalPatchFailures = 0
    /\ result.changeFailureRate = 0

\* Patch tags of two (major, minor) groups and a rejected tag, no release.
C10_Witness ==
  /\ called
  /\ Len(tags) = 3
  /\ Len(parsedTags) = 2
  /\ \A i \in DOMAIN parsedTags : parsedTags[i].patch # 0
  /\ ~SameGroup(parsedTags[1], parsedTags[2])

\* ------------------------------------------------------------------ C11

\* Whether the pattern of versionRegex matches a tag, whatever lastIndex is.
MatchesPattern(tag) == MatchEnd(versionRegex.source, tag, 0) >= 0

\* The caller's tags without those the pattern does not match.
MatchingTags == SelectSeq(tags, MatchesPattern)

\* Whether a release names this tag, as its release tag or a patch tag.
InReleases(tag) ==
  \E k \in DOMAIN Releases :
    \/ Releases[k].releaseTag = tag
    \/ \E n \in DOMAIN Releases[k].patchTags : Releases[k].patchTags[n] = tag

\* Whether the first call, made with lastIndex 0, has returned and no other.
FirstCallReturned == called /\ ~threw /\ earlier = <<>>

\* C11: the result of the first call is the result for the tags the
\* pattern matches alone, and no tag the pattern does not match is named in
\* a release.
C11_RejectedTagsIrrelevant ==
  FirstCallReturned =>
    /\ result = computeReleaseCfr(MatchingTags, [versionRegex EXCEPT !.lastIndex = 0]).result
    /\ \A i \in DOMAIN tags : ~MatchesPattern(tags[i]) => ~InReleases(tags[i])

\* ------------------------------------------------------------------ C12

\* Whether the characters of s at places p..q (1-based) are digits, one at
\* least.
AllDigits(s, p, q) == p <= q /\ \A i \in p..q : IsDigit(s[i])

\* Whether s starts with an optional v followed by digits.digits.digits.
StartsWithVersion(s) ==
  LET o == IF s # <<>> /\ s[1] = "v" THEN 1 ELSE 0
  IN  \E p, q \in DOMAIN s :
        /\ AllDigits(s, o + 1, p)
        /\ s[p + 1] = "."
        /\ AllDigits(s, p + 2, q)
        /\ q + 2 <= Len(s)
        /\ s[q + 1] = "."
        /\ IsDigit(s[q + 2])

\* C12: a tag that does not start with an optional v and
\* digits.digits.digits is not among the accepted tags and is named in no
\* release, whatever the pattern, and the releases and failures counted are
\* no more than the tags that do start so.
C12_NoVersionPrefixRejected ==
  called =>
    /\ \A i \in DOMAIN tags :
         ~StartsWithVersion(tags[i]) =>
           /\ \A j \in DOMAIN parsedTags : parsedTags[j].name # tags[i]
           /\ ~InReleases(tags[i])
    /\ result.totalReleases + result.totalPatchFailures
         <= Cardinality({i \in DOMAIN tags : StartsWithVersion(tags[i])})

\* A pattern without the g flag matches a tag that is no version (vnext
\* under ^v, r-1.0.3 under \d+\.\d+\.\d+), beside a release.
C12_Witness ==
  /\ called
  /\ ~versionRegex.global
  /\ \E i \in DOMAIN tags : MatchesPattern(tags[i]) /\ ~StartsWithVersion(tags[i])
  /\ result.totalReleases >= 1

\* ------------------------------------------------------------------ C13

\* Whether a tag name has a - or + in it.
HasSuffix(name) == \E i \in DOMAIN name : name[i] \in {"-", "+"}

\* Whether a release lists the name among its patch tags.
InPatchTags(name, release) ==
  \E n \in DOMAIN release.patchTags : release.patchTags[n] = name

\* C13: an accepted tag with a suffix and patch # 0 is among the patch
\* tags of the release of its (major, minor), if there is one; an accepted
\* tag with a suffix and patch 0 makes its (major, minor) a release, is its
\* release tag when it is the first patch-0 tag of the group, and is no
\* patch tag.
C13_SuffixIgnored ==
  called =>
    \A j \in DOMAIN parsedTags :
      HasSuffix(parsedTags[j].name) =>
        IF parsedTags[j].patch # 0
        THEN \A k \in DOMAIN Releases :
               TagOfRelease(parsedTags[j], Releases[k]) =>
                 InPatchTags(parsedTags[j].name, Releases[k])
        ELSE /\ \E k \in DOMAIN Releases :
                  /\ TagOfRelease(parsedTags[j], Releases[k])
                  /\ (\A i \in ReleasePlaces(Releases[k]) : j <= i)
                       => Releases[k].releaseTag = parsedTags[j].name
             /\ \A k \in DOMAIN Releases :
                  ~InPatchTags(parsedTags[j].name, Releases[k])

\* A release whose release tag has a suffix and one of whose patch tags has
\* a suffix.
C13_Witness ==
  /\ called
  /\ \E k \in DOMAIN Releases :
       /\ HasSuffix(Releases[k].releaseTag)
       /\ \E n \in DOMAIN Releases[k].patchTags : HasSuffix(Releases[k].patchTags[n])

\* ------------------------------------------------------------------ C14

\* C14: a call that follows a call with the same tags and the same
\* pattern object returns a result equal to the earlier one.
C14_SecondCallEqual ==
  (called /\ ~threw /\ earlier # <<>>) => result = earlier[1]

\* ------------------------------------------------------------------ C15

\* Whether a value has the fields of a RepoCfrResult.
IsRepoCfrResult(r) ==
  /\ DOMAIN r = {"totalReleases", "totalPatchFailures", "changeFailureRate", "releases"}
  /\ r.totalReleases = Len(r.releases)
  /\ r.totalPatchFailures \in Nat
  /\ r.changeFailureRate \in 0..Scale

\* C15: a call raises no error and returns a RepoCfrResult, whatever the
\* tags and the pattern.
C15_NeverRaises ==
  called => ~threw /\ IsRepoCfrResult(result)

\* A call returned for tags none of which is a version, one of them
\* matched by the pattern.
C15_Witness ==
  /\ called
  /\ ~threw
  /\ tags # <<>>
  /\ \A i \in DOMAIN tags : ~StartsWithVersion(tags[i])
  /\ \E i \in DOMAIN tags : MatchesPattern(tags[i])
  /\ result = NoResult

\* ------------------------------------------------------------------ C16

RECURSIVE Canonical(_)
Canonical(ds) ==
  IF Len(ds) > 1 /\ Head(ds) = "0" THEN Canonical(Tail(ds)) ELSE ds

\* The canonical version of a tag name: major.minor.0 from its leading
\* numbers.
CanonicalVersion(name) ==
  Canonical(SEMVER_PREFIX(name).m1) \o <<".">> \o Canonical(SEMVER_PREFIX(name).m2)
    \o <<".", "0">>

\* Whether a string is one of the caller's tags, character for character.
IsInputTag(name) == \E i \in DOMAIN tags : tags[i] = name

\* C17: every release tag and every patch tag of the result is one of
\* the caller's tag strings as given, and every version is major.minor.0
\* with the numbers of the release tag written without leading zeros, v or
\* suffix.
C17_TagsVerbatimVersionCanonical ==
  called =>
    \A k \in DOMAIN Releases :
      /\ IsInputTag(Releases[k].releaseTag)
      /\ \A n \in DOMAIN Releases[k].patchTags : IsInputTag(Releases[k].patchTags[n])
      /\ Releases[k].version = CanonicalVersion(Releases[k].releaseTag)

\* A release tagged 01.0.0-a, of version 1.0.0, with a patch tag that
\* starts with v.
C17_Witness ==
  /\ called
  /\ \E k \in DOMAIN Releases :
       /\ Releases[k].releaseTag = <<"0", "1", ".", "0", ".", "0", "-", "a">>
       /\ Releases[k].version = <<"1", ".", "0", ".", "0">>
       /\ \E n \in DOMAIN Releases[k].patchTags : Head(Releases[k].patchTags[n]) = "v"

\* ------------------------------------------------------------------ C18

\* Places in options.repos of the repositories whose error is null.
NullErrorPlaces == {i \in DOMAIN buildOptions.repos : buildOptions.repos[i].error = null}

\* The sum of count[i] over the places i of a set.
RECURSIVE SumAt(_, _)
SumAt(count, places) ==
  IF places = {}
  THEN 0
  ELSE LET i == CHOOSE i \in places : TRUE
       IN  count[i] + SumAt(count, places \ {i})

ReleasesAt == [i \in DOMAIN buildOptions.repos |-> buildOptions.repos[i].totalReleases]

PatchFailuresAt == [i \in DOMAIN buildOptions.repos |-> buildOptions.repos[i].totalPatchFailures]

\* C18: the summary counts the repositories whose error is null, sums
\* their totalReleases and their totalPatchFailures, and has the rate of the
\* failures over releases plus failures; report.repos is options.repos, the
\* repositories with an error too, in the same order.
C18_SummaryOfNullErrorRepos ==
  report # <<>> =>
    /\ report[1].summary.totalRepos = Cardinality(NullErrorPlaces)
    /\ report[1].summary.totalReleases = SumAt(ReleasesAt, NullErrorPlaces)
    /\ report[1].summary.totalPatchFailures = SumAt(PatchFailuresAt, NullErrorPlaces)
    /\ report[1].summary.changeFailureRate =
         ScriptRate(SumAt(PatchFailuresAt, NullErrorPlaces),
                    SumAt(ReleasesAt, NullErrorPlaces) + SumAt(PatchFailuresAt, NullErrorPlaces))
    /\ report[1].repos = buildOptions.repos

\* A report for a repository with an error and counts before one without
\* an error, with a rate that is not 0.
C18_Witness ==
  /\ report # <<>>
  /\ Len(buildOptions.repos) = 2
  /\ buildOptions.repos[1].error # null
  /\ buildOptions.repos[1].totalReleases > 0
  /\ buildOptions.repos[1].totalPatchFailures > 0
  /\ buildOptions.repos[2].error = null
  /\ report[1].summary.changeFailureRate > 0

\* ------------------------------------------------------------------ C19

\* The greatest of a set of places.
LastOf(places) == CHOOSE k \in places : \A j \in places : j <= k

\* Places of a flag that has a non-empty argument after it.
FollowedPlaces(flag) ==
  {k \in DOMAIN argv : argv[k] = flag /\ k + 1 <= Len(argv) /\ argv[k + 1] # ""}

\* The value after the last place of a set, or the default where the set is
\* empty.
ValueAfterLast(places, default) ==
  IF places = {} THEN default ELSE argv[LastOf(places) + 1]

\* C19 as stated: every option is its default unless its flag is given
\* with a value after it, and then it is the value after the last such
\* flag; showHelp is whether --help or -h occurs anywhere.
C19_FlagsAnywhere ==
  cliOptions # <<>> =>
    /\ cliOptions[1].reposPath =
         ValueAfterLast(FollowedPlaces("--repos"), DEFAULT_OPTIONS.reposPath)
    /\ cliOptions[1].outPath =
         ValueAfterLast(FollowedPlaces("--out"), DEFAULT_OPTIONS.outPath)
    /\ cliOptions[1].versionPattern =
         ValueAfterLast(FollowedPlaces("--version-pattern"), DEFAULT_OPTIONS.versionPattern)
    /\ cliOptions[1].showHelp = (\E k \in DOMAIN argv : argv[k] \in {"--help", "-h"})

\* Whether the argument at place k is a value flag followed by a non-empty
\* argument.
TakesNext(k) == argv[k] \in ValueFlags /\ k + 1 <= Len(argv) /\ argv[k + 1] # ""

\* Whether the argument at place k is read as a flag, not taken as the
\* value of the flag before it.
RECURSIVE ReadAsFlag(_)
ReadAsFlag(k) ==
  \/ k = 1
  \/ k >= 2 /\ ReadAsFlag(k - 1) /\ ~TakesNext(k - 1)
  \/ k >= 3 /\ ReadAsFlag(k - 2) /\ TakesNext(k - 2)

\* Places where a flag is read as a flag and takes the next argument.
TakingPlaces(flag) == {k \in DOMAIN argv : argv[k] = flag /\ ReadAsFlag(k) /\ TakesNext(k)}

\* C19, amended: every option is its default unless its flag is read as
\* a flag with a non-empty argument after it, and then it is the argument
\* after the last such flag; showHelp is whether --help or -h is read as a
\* flag, that is, not taken as the value of a value flag before it.
C19_FlagsNotTakenAsValues ==
  cliOptions # <<>> =>
    /\ cliOptions[1].reposPath =
         ValueAfterLast(TakingPlaces("--repos"), DEFAULT_OPTIONS.reposPath)
    /\ cliOptions[1].outPath =
         ValueAfterLast(TakingPlaces("--out"), DEFAULT_OPTIONS.outPath)
    /\ cliOptions[1].versionPattern =
         ValueAfterLast(TakingPlaces("--version-pattern"), DEFAULT_OPTIONS.versionPattern)
    /\ cliOptions[1].showHelp =
         (\E k \in DOMAIN argv : argv[k] \in {"--help", "-h"} /\ ReadAsFlag(k))

\* --repos given twice with values, the later one kept.
C19_Witness ==
  /\ cliOptions # <<>>
  /\ Cardinality(TakingPlaces("--repos")) = 2
  /\ cliOptions[1].reposPath = "y"
  /\ argv[2] = "x"

\* ------------------------------------------------------------------ C20

\* Whether the provider has mounted and no consumer has changed the theme.
JustMounted == mounted /\ changes = 0

\* C20 as stated: after the mount the theme is the item stored under
\* theme if there is one, else dark if the system prefers dark, else light.
C20_StoredItemWins ==
  JustMounted =>
    theme = IF stored # <<>> THEN stored[1] ELSE IF prefersDark THEN "dark" ELSE "light"

\* C20, amended: after the mount the theme is the item stored under
\* theme if there is one and it is not the empty string, else dark if the
\* system prefers dark, else light.
C20_NonEmptyStoredItemWins ==
  JustMounted =>
    /\ (stored # <<>> /\ stored[1] # "") => theme = stored[1]
    /\ (stored = <<>> \/ stored = <<"">>) => theme = (IF prefersDark THEN "dark" ELSE "light")

\* The provider has mounted with light stored on a system that prefers
\* dark.
C20_Witness ==
  /\ JustMounted
  /\ stored = <<"light">>
  /\ prefersDark
  /\ theme = "light"

\* ------------------------------------------------------------------ C21

\* C21: after toggleTheme has been called a number of times in a row, the
\* theme is the theme before those calls exactly when the number is even.
C21_ToggleParity ==
  mounted => ((theme = themeBefore) <=> (toggles % 2 = 0))

\* ------------------------------------------------------------------ C22

\* Whether the effect has run for the current theme: the theme is the item
\* in localStorage, and a mount that finds this item takes it as its theme.
ThemeWritten ==
  /\ ~effectPending
  /\ storage = <<theme>>
  /\ initializeTheme(getItem(storage), prefersDark) = theme

\* C22: once the provider has mounted, a change of theme whose effect is
\* still to run is followed by the write of the current theme to
\* localStorage, from where a later mount takes it.
C22_ChangePersisted == (mounted /\ effectPending) ~> ThemeWritten

\* A consumer has changed the theme from the one the mount gave, and the
\* new theme has been written.
C22_Witness ==
  /\ mounted
  /\ changes >= 1
  /\ theme # initializeTheme(stored, prefersDark)
  /\ storage # stored
  /\ ThemeWritten

\* ------------------------------------------------------------------ C23

\* C23: once the provider has mounted and its effect has run, the root
\* element has the class dark exactly when the theme is dark.
C23_DarkClassFollowsTheme ==
  (mounted /\ ~effectPending) => (rootDark <=> theme = "dark")

\* The theme was dark at the mount and a consumer has made it light again
\* after two changes or more: the class has been removed.
C23_Witness ==
  /\ mounted
  /\ ~effectPending
  /\ stored = <<"dark">>
  /\ changes >= 2
  /\ theme = "light"
  /\ ~rootDark

\* ------------------------------------------------------------------ C27

\* The values of the type Theme.
Themes == {"light", "dark"}

\* C27: the theme the provider gives its consumers is light or dark, and
\* what its effect has written to localStorage is light or dark.
C27_ThemeLightOrDark ==
  /\ theme \in Themes
  /\ (mounted /\ ~effectPending) => storage[1] \in Themes

\* ------------------------------------------------------------------ C24

\* Whether the entry at place i is the one of a failed fetch: the message
\* of the failure as its error, no releases and zeros.
IsErrorEntryAt(i) ==
  /\ mainRepos[i].error # null
  /\ mainRepos[i].error # <<>>
  /\ Trim(fetched[i].stderr) # <<>> => mainRepos[i].error = Trim(fetched[i].stderr)
  /\ mainRepos[i].totalReleases = 0
  /\ mainRepos[i].totalPatchFailures = 0
  /\ mainRepos[i].changeFailureRate = 0
  /\ mainRepos[i].releases = <<>>

\* C24: the entries pushed so far are those of the first repositories of
\* reposInput, in order; the entry of a repository whose git process failed
\* has the error message, zeros and no releases, and the entry of one whose
\* process succeeded has no error; the loop does not end before the last
\* repository, and the report written has one entry for every repository
\* of reposInput.
C24_OneEntryPerRepository ==
  /\ Len(mainRepos) = Len(fetched)
  /\ Len(mainRepos) <= Len(reposInput)
  /\ \A i \in DOMAIN mainRepos :
       /\ mainRepos[i].url = reposInput[i].url
       /\ fetched[i].exitCode # 0 => IsErrorEntryAt(i)
       /\ fetched[i].exitCode = 0 => mainRepos[i].error = null
  /\ mainPc # "break"
  /\ mainPc = "done" =>
       /\ Len(mainRepos) = Len(reposInput)
       /\ mainReport[1].repos = mainRepos

\* A report written for two repositories, the first of which could not be
\* fetched and the second of which has a release.
C24_Witness ==
  /\ mainPc = "done"
  /\ Len(reposInput) = 2
  /\ fetched[1].exitCode # 0
  /\ fetched[2].exitCode = 0
  /\ mainReport[1].repos[2].totalReleases >= 1

\* ------------------------------------------------------------------ C25

\* Whether no two accepted tags have the same (major, minor, patch).
DistinctTriples ==
  \A i, j \in DOMAIN parsedTags :
    (/\ parsedTags[i].major = parsedTags[j].major
     /\ parsedTags[i].minor = parsedTags[j].minor
     /\ parsedTags[i].patch = parsedTags[j].patch) => i = j

\* The orders in which n tags can be passed.
Orders(n) == {p \in [1..n -> 1..n] : \A i, j \in 1..n : p[i] = p[j] => i = j}

\* The tags in the order p.
InOrder(ts, p) == [i \in 1..Len(ts) |-> ts[p[i]]]

\* The result of a first call with the tags in the order p.
ResultInOrder(p) ==
  computeReleaseCfr(InOrder(tags, p), [versionRegex EXCEPT !.lastIndex = 0]).result

\* C25: where no two accepted tags share a (major, minor, patch), the
\* result of the first call is the result of a first call with the tags in
\* any other order.
C25_OrderIrrelevant ==
  (FirstCallReturned /\ DistinctTriples) =>
    \A p \in Orders(Len(tags)) : ResultInOrder(p) = result

\* ------------------------------------------------------------------ C26

\* The places of the result where a tag is named: <<k, 0>> for the
\* releaseTag of release k, <<k, n>> for its n-th patch tag.
NamedPlaces ==
  {<<k, 0>> : k \in DOMAIN Releases} \cup
  UNION {{<<k, n>> : n \in DOMAIN Releases[k].patchTags} : k \in DOMAIN Releases}

\* The name at a place of the result.
NameAt(place) ==
  IF place[2] = 0 THEN Releases[place[1]].releaseTag
  ELSE Releases[place[1]].patchTags[place[2]]

\* Whether the accepted tag at place i of parsedTags can be the one named
\* at a place of the result: it has the name and the release's
\* (major, minor), and its patch is 0 for a releaseTag and not 0 for a
\* patch tag.
NamesOccurrence(place, i) ==
  /\ parsedTags[i].name = NameAt(place)
  /\ TagOfRelease(parsedTags[i], Releases[place[1]])
  /\ (place[2] = 0) <=> (parsedTags[i].patch = 0)

\* C26: the places of the result where a tag is named can be given each an
\* accepted tag occurrence of its own, one with the release's (major,
\* minor) and with patch # 0 for a patch tag; so totalReleases +
\* totalPatchFailures, the number of those places, is at most the number of
\* accepted tags.
C26_OccurrenceUsedOnce ==
  called =>
    /\ \E f \in [NamedPlaces -> DOMAIN parsedTags] :
         /\ \A x, y \in NamedPlaces : f[x] = f[y] => x = y
         /\ \A x \in NamedPlaces : NamesOccurrence(x, f[x])
    /\ result.totalReleases + result.totalPatchFailures = Cardinality(NamedPlaces)
    /\ result.totalReleases + result.totalPatchFailures <= Len(parsedTags)

\* A release beside a second accepted patch-0 tag of its (major, minor),
\* which is named nowhere, and with a patch tag.
C26_Witness ==
  /\ called
  /\ \E k \in DOMAIN Releases :
       /\ Cardinality(ReleasePlaces(Releases[k])) >= 2
       /\ Releases[k].failedTags >= 1
  /\ result.totalReleases + result.totalPatchFailures < Len(parsedTags)

\* ------------------------------------------------------------------ C28

\* C28: once the component has unmounted before fetch settled, or before
\* the body was read, report and error are null and loading is true,
\* however the fetch settles afterwards.
C28_NoUpdateAfterUnmount ==
  unmountedAt \in {"pending", "json"} =>
    hookReport = <<>> /\ hookError = <<>> /\ loading = TRUE

\* The chain has run to its end with a report after an unmount before
\* fetch settled.
C28_Witness ==
  /\ unmountedAt = "pending"
  /\ hookPc = "done"
  /\ response.kind = "response"
  /\ response.status = 200
  /\ response.body \in ReportBodies

\* ------------------------------------------------------------------ C29

\* Whether the chain has run to its end with the component mounted.
SettledMounted == hookPc = "done" /\ unmountedAt \in {"never", "done"}

\* Whether fetch gave an ok response whose body is JSON.
Successful == response.kind = "response" /\ ResponseOk(response) /\ Json(response.body).ok

\* The error a settlement that is not successful leaves.
MessageOfFailure ==
  IF response.kind = "rejected" THEN response.body
  ELSE IF ~ResponseOk(response) THEN MissingDataFile(response.status)
  ELSE Json(response.body).value[1]

\* loading is true until the chain has run to its end, and false, for
\* good, once it has with the component mounted.
LoadingUntilSettled ==
  /\ hookPc # "done" => loading = TRUE
  /\ SettledMounted => loading = FALSE

\* C29 as stated: loading is true until the fetch settles and false once
\* it has settled with the component mounted, and then exactly one of
\* report and error is not null: report after a successful response,
\* error after any other settlement.
C29_ExactlyOneOfReportAndError ==
  /\ LoadingUntilSettled
  /\ SettledMounted =>
       /\ (hookReport # <<>>) # (hookError # <<>>)
       /\ Successful => hookReport # <<>>
       /\ ~Successful => hookError # <<>>

\* C29, amended: loading is true until the fetch settles and false once it
\* has settled with the component mounted; then after a successful
\* response report is the parsed body, null if the body is the JSON text
\* null, and error is null, and after any other settlement report is null
\* and error is the message of the failure.
C29_ReportOrErrorAsSettled ==
  /\ LoadingUntilSettled
  /\ SettledMounted =>
       /\ Successful => hookReport = Json(response.body).value /\ hookError = <<>>
       /\ ~Successful => hookReport = <<>> /\ hookError = <<MessageOfFailure>>

\* Settled with the component mounted after an ok response whose body is
\* the JSON text null.
C29_Witness ==
  /\ SettledMounted
  /\ response.status = 200
  /\ response.body = "null"
  /\ hookReport = <<>>
  /\ hookError = <<>>
  /\ loading = FALSE

\* ------------------------------------------------------------------ C30

\* The options parseArgs gives for the first k arguments.
OptionsUpTo(k) == parseArgs(SubSeq(argv, 1, k))

\* The option a value flag stands for.
OptionOf(flag, options) ==
  CASE flag = "--repos" -> options.reposPath
    [] flag = "--out" -> options.outPath
    [] flag = "--version-pattern" -> options.versionPattern

\* Whether the argument at place k, read as a flag, has no effect: it is a
\* value flag with no argument or the empty string after it, or it is none
\* of the flags.
PassedOver(k) ==
  /\ ReadAsFlag(k)
  /\ \/ argv[k] \in ValueFlags /\ (k = Len(argv) \/ argv[k + 1] = "")
     \/ argv[k] \notin ValueFlags \cup {"--help", "-h"}

\* C30: reading an argument that is a value flag with nothing or the
\* empty string after it, or that is no flag at all, changes no option,
\* and a value flag that is never followed by a non-empty argument where
\* it is read leaves its default; a value flag with a non-empty argument
\* after it has that argument as its value once the two are read, whatever
\* the argument is, and the argument has no effect of its own on the other
\* options; so --repos --out x gives reposPath --out and leaves outPath at
\* its default.
C30_ValueFlagTakesNextToken ==
  cliOptions # <<>> =>
    /\ \A k \in DOMAIN argv :
         PassedOver(k) =>
           /\ OptionsUpTo(k) = OptionsUpTo(k - 1)
           /\ (argv[k] \in ValueFlags /\ k < Len(argv)) => OptionsUpTo(k + 1) = OptionsUpTo(k - 1)
    /\ \A flag \in ValueFlags :
         (\A k \in DOMAIN argv : (argv[k] = flag /\ ReadAsFlag(k)) => PassedOver(k)) =>
           OptionOf(flag, cliOptions[1]) = OptionOf(flag, DEFAULT_OPTIONS)
    /\ \A k \in DOMAIN argv :
         (ReadAsFlag(k) /\ TakesNext(k)) =>
           /\ OptionOf(argv[k], OptionsUpTo(k + 1)) = argv[k + 1]
           /\ \A flag \in ValueFlags \ {argv[k]} :
                OptionOf(flag, OptionsUpTo(k + 1)) = OptionOf(flag, OptionsUpTo(k - 1))
           /\ OptionsUpTo(k + 1).showHelp = OptionsUpTo(k - 1).showHelp
    /\ argv = <<"--repos", "--out", "x">> =>
         /\ cliOptions[1].reposPath = "--out"
         /\ cliOptions[1].outPath = DEFAULT_OPTIONS.outPath

\* --repos --out x, and after it --out with nothing after it.
C30_Witness ==
  /\ cliOptions # <<>>
  /\ argv = <<"--repos", "--out", "x", "--out">>
  /\ cliOptions[1].reposPath = "--out"
  /\ cliOptions[1].outPath = DEFAULT_OPTIONS.outPath

====
